---------------------------- MODULE Spec2Model ----------------------------
(***************************************************************************)
(* A model of ACFP (src/ACFP.h): the lexical utilities, the primitive      *)
(* parser, the three-level configuration table and parseConfigFile.        *)
(*                                                                         *)
(* A text (std::string / std::string_view) is a sequence of one-character  *)
(* strings.  Positions are 0-based as in the source; the character at      *)
(* position p of sv is sv[p + 1].                                          *)
(***************************************************************************)
EXTENDS Integers, Sequences, FiniteSets, TLC

VARIABLES
    table,      \* ConfigTable ct: section -> subsection -> key -> value
    cur,        \* cur_section, as the <<section, subsection>> it points at
    line_num,   \* the loop counter of parseConfigFile (uint32_t; the runs modelled
                \* stay far below 2^32, so it never wraps)
    status,     \* "parsing", "done" (ct returned), "malformed", "unfinished"
                \* (the two exceptions), "crash" (abort on undefined behaviour)
    errLine,    \* the line number printed in the exception's message
    input,      \* the lines std::getline has delivered so far, after the block
    base,       \* number of comment lines read in one block at the file's start
    ub,         \* TRUE once front() has been evaluated on an empty string_view
    call,       \* the accessor or pure function last called ("none" at first)
    arg,        \* its argument
    ret         \* its result

vars == <<table, cur, line_num, status, errLine, input, base, ub, call, arg, ret>>

-----------------------------------------------------------------------------
(* Bounds of the model *)

MaxLines == 3       \* lines of input read by one parseConfigFile run
BlockLen == 65535   \* length of the block of comment lines at the file's start
MaxLen == 3         \* length of the texts given to the lexical utilities
MaxNumLen == 3      \* length of the texts given to parse<T>

(* Program constants *)

npos == -1                  \* std::string_view::npos, the not-found sentinel
Uint16Mod == 65536          \* uint16_t line_num of trimStringQuotes
TMin == -128                \* Parser<T> at T = std::int8_t
TMax == 127

BSL == "\\"
DQ == "\""
SP == " "
TAB == "\t"

-----------------------------------------------------------------------------
(* Texts *)

RECURSIVE TextsUpTo(_, _)
TextsUpTo(chars, n) ==
    IF n = 0 THEN {<<>>}
    ELSE LET shorter == TextsUpTo(chars, n - 1)
         IN  shorter \cup {Append(t, c) : t \in shorter, c \in chars}

\* sv.substr(pos, npos)
substr(sv, pos) == SubSeq(sv, pos + 1, Len(sv))

\* sv.substr(0, count)
prefix(sv, count) == SubSeq(sv, 1, count)

\* sv.find_first_not_of(chars)
find_first_not_of(sv, chars) ==
    LET hits == {p \in 0..(Len(sv) - 1) : sv[p + 1] \notin chars}
    IN  IF hits = {} THEN npos ELSE CHOOSE p \in hits : \A q \in hits : p <= q

\* sv.find_last_not_of(chars)
find_last_not_of(sv, chars) ==
    LET hits == {p \in 0..(Len(sv) - 1) : sv[p + 1] \notin chars}
    IN  IF hits = {} THEN npos ELSE CHOOSE p \in hits : \A q \in hits : p >= q

\* sv.find_first_of(chars)
find_first_of(sv, chars) ==
    LET hits == {p \in 0..(Len(sv) - 1) : sv[p + 1] \in chars}
    IN  IF hits = {} THEN npos ELSE CHOOSE p \in hits : \A q \in hits : p <= q

-----------------------------------------------------------------------------
(* Lexical utilities *)

\* trimStringViewEnds with the default trim_chars " \t".  A span made only of
\* trim characters has no first-not-of position, so nothing is removed.
trimStringViewEnds(sv) ==
    LET fnos == find_first_not_of(sv, {SP, TAB})
        s1   == IF fnos # npos THEN substr(sv, fnos) ELSE sv
        lnos == find_last_not_of(s1, {SP, TAB})
    IN  IF lnos # npos THEN prefix(s1, lnos + 1) ELSE s1

\* The loop of findFirstNotQuoted from position p with the two flags.
RECURSIVE findFirstNotQuotedFrom(_, _, _, _, _)
findFirstNotQuotedFrom(sv, ch, p, quoted, escaped) ==
    IF p >= Len(sv) THEN npos
    ELSE IF sv[p + 1] = BSL
         THEN findFirstNotQuotedFrom(sv, ch, p + 1, quoted, ~escaped)
    ELSE IF sv[p + 1] = DQ
         THEN findFirstNotQuotedFrom(sv, ch, p + 1,
                                     IF escaped THEN quoted ELSE ~quoted, FALSE)
    ELSE IF sv[p + 1] = ch /\ ~escaped /\ ~quoted THEN p
    ELSE findFirstNotQuotedFrom(sv, ch, p + 1, quoted, escaped)

findFirstNotQuoted(sv, ch) == findFirstNotQuotedFrom(sv, ch, 0, FALSE, FALSE)

findEqPos(line) == findFirstNotQuoted(line, "=")

\* trimStringComment: only the FIRST '#' or '/' of the line is looked at.
trimStringComment(sv) ==
    LET p == find_first_of(sv, {"#", "/"})
    IN  IF p = npos THEN sv
        ELSE IF sv[p + 1] = "#" THEN prefix(sv, p)
        ELSE IF sv[p + 1] = "/" /\ Len(sv) > p + 1 /\ sv[p + 2] = "/"
             THEN prefix(sv, p)
        ELSE sv

\* trimStringQuotes(sv, line_num, front, back).  n is the caller's counter; the
\* parameter is uint16_t, so the message carries n modulo 2^16.  sv.front() on
\* an empty span is undefined: emptyFront reports it.  A build either reads the
\* character that follows the span in the line's buffer (in parseConfigFile
\* that is '=', ' ', ']', '#', '/', a tab or the terminator, never the quote),
\* which leaves sv as it is, or checks the precondition and aborts
\* (AbortOnEmptyFront).
trimStringQuotes(sv, n, front, back) ==
    LET line16 == n % Uint16Mod
    IN  IF sv = <<>>
        THEN [sv |-> sv, threw |-> FALSE, line |-> line16, emptyFront |-> TRUE]
        ELSE IF sv[1] = front
        THEN LET s1 == Tail(sv)
             IN  IF Len(s1) = 0 \/ s1[Len(s1)] # back
                 THEN [sv |-> s1, threw |-> TRUE, line |-> line16,
                       emptyFront |-> FALSE]
                 ELSE [sv |-> prefix(s1, Len(s1) - 1), threw |-> FALSE,
                       line |-> line16, emptyFront |-> FALSE]
        ELSE [sv |-> sv, threw |-> FALSE, line |-> line16, emptyFront |-> FALSE]

-----------------------------------------------------------------------------
(* Primitive parser: Parser<T> for an integral T, over std::from_chars *)

Digits == {"0", "1", "2", "3", "4", "5", "6", "7", "8", "9"}

DigitVal(c) ==
    CASE c = "0" -> 0 [] c = "1" -> 1 [] c = "2" -> 2 [] c = "3" -> 3
      [] c = "4" -> 4 [] c = "5" -> 5 [] c = "6" -> 6 [] c = "7" -> 7
      [] c = "8" -> 8 [] c = "9" -> 9

\* Value of the digits sv[from + 1 .. to] read left to right.
RECURSIVE DigitsValue(_, _, _)
DigitsValue(sv, from, to) ==
    IF to <= from THEN 0
    ELSE 10 * DigitsValue(sv, from, to - 1) + DigitVal(sv[to])

\* std::from_chars(sv.begin(), sv.end(), v) in base 10: an optional '-' and the
\* longest run of digits.  ptr is the position of the first character that is
\* not part of the number; nothing requires it to be sv.end().
from_chars(sv) ==
    LET start == IF Len(sv) > 0 /\ sv[1] = "-" THEN 1 ELSE 0
        rest  == find_first_not_of(substr(sv, start), Digits)
        stop  == IF rest = npos THEN Len(sv) ELSE start + rest
        mag   == DigitsValue(sv, start, stop)
        v     == IF start = 1 THEN 0 - mag ELSE mag
    IN  IF stop = start THEN [ec |-> "invalid_argument", ptr |-> 0, v |-> 0]
        ELSE IF v < TMin \/ v > TMax
             THEN [ec |-> "result_out_of_range", ptr |-> stop, v |-> 0]
        ELSE [ec |-> "ok", ptr |-> stop, v |-> v]

\* Parser<T>::parse: only ec is examined, ptr is dropped.
Parser_parse(sv) ==
    LET r == from_chars(sv)
    IN  IF r.ec = "result_out_of_range" THEN [threw |-> "range_error", v |-> 0]
        ELSE IF r.ec = "invalid_argument"
             THEN [threw |-> "invalid_argument", v |-> 0]
        ELSE IF r.ec # "ok" THEN [threw |-> "runtime_error", v |-> 0]
        ELSE [threw |-> "none", v |-> r.v]

\* std::optional: nullopt is the empty sequence, a value v is <<v>>.
nullopt == <<>>

Some(v) == <<v>>

\* parse<T>(std::optional<std::string_view>)
parse_optional(osv) ==
    IF osv # nullopt
    THEN LET r == Parser_parse(osv[1])
         IN  [threw |-> r.threw, v |-> IF r.threw = "none" THEN Some(r.v) ELSE nullopt]
    ELSE [threw |-> "none", v |-> nullopt]

-----------------------------------------------------------------------------
(* Data model: std::unordered_map as a function with a finite domain *)

EmptyMap == [x \in {} |-> x]

\* m[k] = v of std::unordered_map: insert or overwrite
Put(m, k, v) == (k :> v) @@ m

\* Section::hasField
hasField(fields, key) == key \in DOMAIN fields

\* Section::getField
getField(fields, key) ==
    IF key \notin DOMAIN fields THEN nullopt ELSE Some(fields[key])

\* Section::getFieldAs<T>
getFieldAs(fields, key) == parse_optional(getField(fields, key))

\* setField as an insert that keeps an existing entry (fields.emplace)
setField_keepFirst(fields, key, value) ==
    IF key \in DOMAIN fields THEN fields ELSE Put(fields, key, value)

\* Section::setField
setField(fields, key, value) == Put(fields, key, value)

\* Section::operator[]
Section_index(fields, key) == getField(fields, key)

\* SectionGroup::hasSubsection
hasSubsection(sections, subkey) == subkey \in DOMAIN sections

\* SectionGroup::getSubsection, non-const: sections[subkey] creates on access.
\* The result is the map after the call; the Section returned is at subkey.
getSubsection(sections, subkey) ==
    IF subkey \in DOMAIN sections THEN sections ELSE Put(sections, subkey, EmptyMap)

\* static const Section empty_section
empty_section == EmptyMap

\* SectionGroup::operator[] const: self is the map after the call, val the
\* Section the returned reference denotes.
SectionGroup_index(sections, subkey) ==
    IF subkey \notin DOMAIN sections
    THEN [self |-> sections, threw |-> FALSE, val |-> empty_section]
    ELSE [self |-> sections, threw |-> FALSE, val |-> sections[subkey]]

\* ConfigTable::hasSection
hasSection(groups, key) == key \in DOMAIN groups

\* ConfigTable::getSection, non-const: groups[key] creates on access.
getSection(groups, key) ==
    IF key \in DOMAIN groups THEN groups ELSE Put(groups, key, EmptyMap)

\* static const SectionGroup empty_section_group
empty_section_group == EmptyMap

\* operator[] written with the map's own operator[], which creates the entry
ConfigTable_index_creating(groups, key) ==
    [self |-> getSection(groups, key), threw |-> FALSE,
     val |-> getSection(groups, key)[key]]

\* ConfigTable::operator[] const
ConfigTable_index(groups, key) ==
    IF key \notin DOMAIN groups
    THEN [self |-> groups, threw |-> FALSE, val |-> empty_section_group]
    ELSE [self |-> groups, threw |-> FALSE, val |-> groups[key]]

\* ct.getSection(s).getSubsection(sub): the table after both accesses
getSectionSubsection(groups, s, sub) ==
    LET g1 == getSection(groups, s)
    IN  [g1 EXCEPT ![s] = getSubsection(g1[s], sub)]

-----------------------------------------------------------------------------
(* parseConfigFile: what one iteration of the loop does with one line *)

Outcome(kind, first, second, line, emptyFront) ==
    [kind |-> kind, first |-> first, second |-> second, line |-> line,
     emptyFront |-> emptyFront]

\* The "Section start" branch; line starts with '['.  first/second are the
\* section and subsection names passed to getSection and getSubsection.
sectionStart(line, n) ==
    LET q       == trimStringQuotes(line, n, "[", "]")
        sep     == findFirstNotQuoted(q.sv, SP)
        name    == trimStringViewEnds(prefix(q.sv, sep))
        qn      == trimStringQuotes(name, n, DQ, DQ)
        subname == trimStringViewEnds(substr(q.sv, sep + 1))
        qs      == trimStringQuotes(subname, n, DQ, DQ)
    IN  IF q.threw THEN Outcome("unfinished", <<>>, <<>>, q.line, FALSE)
        ELSE IF sep = npos THEN Outcome("section", q.sv, <<>>, 0, FALSE)
        ELSE IF qn.threw THEN Outcome("unfinished", <<>>, <<>>, qn.line, FALSE)
        ELSE IF qs.threw
             THEN Outcome("unfinished", <<>>, <<>>, qs.line, qn.emptyFront)
        ELSE Outcome("section", qn.sv, qs.sv, 0, qn.emptyFront \/ qs.emptyFront)

\* The "Key/Value" branch; first/second are the key and value given to setField.
keyValue(line, n) ==
    LET eq_pos == findEqPos(line)
        key    == trimStringViewEnds(prefix(line, eq_pos))
        qk     == trimStringQuotes(key, n, DQ, DQ)
        value  == trimStringViewEnds(substr(line, eq_pos + 1))
        qv     == trimStringQuotes(value, n, DQ, DQ)
    IN  IF eq_pos = npos THEN Outcome("malformed", <<>>, <<>>, n, FALSE)
        ELSE IF qk.threw THEN Outcome("unfinished", <<>>, <<>>, qk.line, FALSE)
        ELSE IF qv.threw
             THEN Outcome("unfinished", <<>>, <<>>, qv.line, qk.emptyFront)
        ELSE Outcome("field", qk.sv, qv.sv, 0, qk.emptyFront \/ qv.emptyFront)

\* The body of the for loop for line_string at counter value n.
parseLine(line_string, n) ==
    LET line == trimStringComment(trimStringViewEnds(line_string))
    IN  IF Len(line) = 0 THEN Outcome("skip", <<>>, <<>>, 0, FALSE)
        ELSE IF line[1] = "[" THEN sectionStart(line, n)
        ELSE keyValue(line, n)

\* The lines std::getline may deliver: one or two of each shape.
Lines ==
    { <<>>,                             \* empty
      <<SP>>,                           \* spaces only
      <<SP, "#">>,                      \* comment after a space
      <<"[", "a", "]">>,                \* singleton section
      <<"[", "]">>,                     \* the section named ""
      <<"[", DQ, "a", DQ, "]">>,        \* quoted singleton section
      <<"[", "a", SP, "b", "]">>,       \* section and subsection
      <<"k", "=", "v">>,
      <<"k", "=", "w">>,
      <<"j", "=", "v">>,
      <<BSL, "a", BSL, "=", "v">>,      \* backslashes before the '='
      <<"a", "b">>,                     \* no '='
      <<"[", "a">>,                     \* no ']'
      <<"k", "=", DQ, "v">>,            \* no closing quote
      <<"k", "=">>,                     \* empty value
      <<"=", "v">>,                     \* empty key
      <<"[", SP, "a", "]">>,            \* empty section part
      <<"[", "a", SP, "]">> }           \* empty subsection part

Idle == call = "none" /\ arg = <<>> /\ ret = <<>>

Init ==
    /\ table = getSectionSubsection(EmptyMap, <<>>, <<>>)
    /\ cur = <<<<>>, <<>>>>
    /\ line_num = 1
    /\ status = "parsing"
    /\ errLine = 0
    /\ input = <<>>
    /\ base = 0
    /\ ub = FALSE
    /\ Idle

CanRead == status = "parsing" /\ Len(input) < MaxLines

\* A block of BlockLen comment lines at the start of the file: BlockLen
\* iterations that each take the "continue" and only advance the counter.
SkipCommentBlock ==
    /\ CanRead
    /\ input = <<>>
    /\ base = 0
    /\ base' = BlockLen
    /\ line_num' = line_num + BlockLen
    /\ UNCHANGED <<table, cur, status, errLine, input, ub, call, arg, ret>>

SkipLine ==
    \E l \in Lines :
        /\ CanRead
        /\ parseLine(l, line_num).kind = "skip"
        /\ input' = Append(input, l)
        /\ line_num' = line_num + 1
        /\ UNCHANGED <<table, cur, status, errLine, base, ub, call, arg, ret>>

SectionStart ==
    \E l \in Lines :
        LET o == parseLine(l, line_num)
        IN  /\ CanRead
            /\ o.kind = "section"
            /\ table' = getSectionSubsection(table, o.first, o.second)
            /\ cur' = <<o.first, o.second>>
            /\ ub' = (ub \/ o.emptyFront)
            /\ input' = Append(input, l)
            /\ line_num' = line_num + 1
            /\ UNCHANGED <<status, errLine, base, call, arg, ret>>

KeyValue ==
    \E l \in Lines :
        LET o == parseLine(l, line_num)
        IN  /\ CanRead
            /\ o.kind = "field"
            /\ table' = [table EXCEPT
                           ![cur[1]][cur[2]] = setField(@, o.first, o.second)]
            /\ ub' = (ub \/ o.emptyFront)
            /\ input' = Append(input, l)
            /\ line_num' = line_num + 1
            /\ UNCHANGED <<cur, status, errLine, base, call, arg, ret>>

ThrowMalformed ==
    \E l \in Lines :
        LET o == parseLine(l, line_num)
        IN  /\ CanRead
            /\ o.kind = "malformed"
            /\ status' = "malformed"
            /\ errLine' = o.line
            /\ input' = Append(input, l)
            /\ UNCHANGED <<table, cur, line_num, base, ub, call, arg, ret>>

ThrowUnfinished ==
    \E l \in Lines :
        LET o == parseLine(l, line_num)
        IN  /\ CanRead
            /\ o.kind = "unfinished"
            /\ status' = "unfinished"
            /\ errLine' = o.line
            /\ ub' = (ub \/ o.emptyFront)
            /\ input' = Append(input, l)
            /\ UNCHANGED <<table, cur, line_num, base, call, arg, ret>>

\* A build that checks front()'s precondition stops at the empty span.
AbortOnEmptyFront ==
    \E l \in Lines :
        /\ CanRead
        /\ parseLine(l, line_num).emptyFront
        /\ status' = "crash"
        /\ ub' = TRUE
        /\ input' = Append(input, l)
        /\ UNCHANGED <<table, cur, line_num, errLine, base, call, arg, ret>>

\* std::getline fails at the end of the input: return ct.
ReturnTable ==
    /\ status = "parsing"
    /\ status' = "done"
    /\ call' = "parseConfigFile"
    /\ ret' = table
    /\ UNCHANGED <<table, cur, line_num, errLine, input, base, ub, arg>>

Next ==
    \/ SkipCommentBlock
    \/ SkipLine
    \/ SectionStart
    \/ KeyValue
    \/ ThrowMalformed
    \/ ThrowUnfinished
    \/ AbortOnEmptyFront
    \/ ReturnTable

Spec == Init /\ [][Next]_vars

-----------------------------------------------------------------------------
(* The table under its builder operations and its read-only lookups *)

Names == {<<>>, <<"a">>}

FieldKeys == {<<"k">>}

Values == {<<"v">>, <<"w">>}

LookupNames ==
    {"hasSection", "table[s]", "hasSubsection", "table[s][sub]",
     "hasField", "getField", "table[s][sub][k]"}

\* groups after a const accessor ran on the SectionGroup at key s (the static
\* empty_section_group is no part of the table)
WriteBack(groups, s, sections) ==
    IF s \in DOMAIN groups THEN [groups EXCEPT ![s] = sections] ELSE groups

\* A caller's read-only expression on the table, chained through the const
\* accessors: the table after it, whether it threw, and its value.
chainedLookup(groups, name, s, sub, k) ==
    LET g     == ConfigTable_index(groups, s)
        sec   == SectionGroup_index(g.val, sub)
        after == WriteBack(g.self, s, sec.self)
        fail  == g.threw \/ sec.threw
    IN  CASE name = "hasSection" ->
               [self |-> groups, threw |-> FALSE, val |-> hasSection(groups, s)]
          [] name = "table[s]" -> g
          [] name = "hasSubsection" ->
               [self |-> g.self, threw |-> g.threw, val |-> hasSubsection(g.val, sub)]
          [] name = "table[s][sub]" ->
               [self |-> after, threw |-> fail, val |-> sec.val]
          [] name = "hasField" ->
               [self |-> after, threw |-> fail, val |-> hasField(sec.val, k)]
          [] name = "getField" ->
               [self |-> after, threw |-> fail, val |-> getField(sec.val, k)]
          [] name = "table[s][sub][k]" ->
               [self |-> after, threw |-> fail, val |-> Section_index(sec.val, k)]

\* The arguments a lookup uses
LookupArgs(name, s, sub, k) ==
    IF name \in {"hasSection", "table[s]"} THEN <<s>>
    ELSE IF name \in {"hasSubsection", "table[s][sub]"} THEN <<s, sub>>
    ELSE <<s, sub, k>>

\* A default-constructed ConfigTable
InitTable ==
    /\ table = EmptyMap
    /\ cur = <<<<>>, <<>>>>
    /\ line_num = 1
    /\ status = "built"
    /\ errLine = 0
    /\ input = <<>>
    /\ base = 0
    /\ ub = FALSE
    /\ Idle

Built == /\ call' = "build"
         /\ arg' = <<>>
         /\ ret' = <<>>
         /\ UNCHANGED <<cur, line_num, status, errLine, input, base, ub>>

DoGetSection ==
    \E s \in Names :
        /\ table' = getSection(table, s)
        /\ Built

\* on the SectionGroup reference that getSection(s) returned
DoGetSubsection ==
    \E s \in DOMAIN table, sub \in Names :
        /\ table' = [table EXCEPT ![s] = getSubsection(@, sub)]
        /\ Built

\* on the Section reference that getSubsection(sub) returned
DoSetField ==
    \E s \in DOMAIN table :
        \E sub \in DOMAIN table[s], k \in FieldKeys, v \in Values :
            /\ table' = [table EXCEPT ![s][sub] = setField(@, k, v)]
            /\ Built

DoLookup ==
    \E name \in LookupNames, s \in Names, sub \in Names, k \in FieldKeys :
        LET r == chainedLookup(table, name, s, sub, k)
        IN  /\ table' = r.self
            /\ call' = name
            /\ arg' = LookupArgs(name, s, sub, k)
            /\ ret' = [threw |-> r.threw, val |-> r.val]
            /\ UNCHANGED <<cur, line_num, status, errLine, input, base, ub>>

NextTable == DoGetSection \/ DoGetSubsection \/ DoSetField \/ DoLookup

SpecTable == InitTable /\ [][NextTable]_vars

-----------------------------------------------------------------------------
(* The lexical utilities applied to every short text *)

LexChars == {"#", "/", BSL, DQ, "=", "a"}

InitLex ==
    /\ arg \in TextsUpTo(LexChars, MaxLen)
    /\ call = "none"
    /\ ret = <<>>
    /\ table = EmptyMap
    /\ cur = <<<<>>, <<>>>>
    /\ line_num = 1
    /\ status = "lex"
    /\ errLine = 0
    /\ input = <<>>
    /\ base = 0
    /\ ub = FALSE

CallTrimStringComment ==
    /\ call = "none"
    /\ call' = "trimStringComment"
    /\ ret' = trimStringComment(arg)
    /\ UNCHANGED <<table, cur, line_num, status, errLine, input, base, ub, arg>>

CallFindFirstNotQuoted ==
    \E ch \in {"=", "a"} :
        /\ call = "none"
        /\ call' = "findFirstNotQuoted"
        /\ ret' = <<ch, findFirstNotQuoted(arg, ch)>>
        /\ UNCHANGED <<table, cur, line_num, status, errLine, input, base, ub, arg>>

NextLex == CallTrimStringComment \/ CallFindFirstNotQuoted

SpecLex == InitLex /\ [][NextLex]_vars

-----------------------------------------------------------------------------
(* parse<T> and getFieldAs<T> applied to every short text *)

NumChars == {"-", "1", "2", "9", "a"}

\* A Section holding the text under the key "p"
InitNum ==
    /\ arg \in TextsUpTo(NumChars, MaxNumLen)
    /\ call = "none"
    /\ ret = <<>>
    /\ table = [getSectionSubsection(EmptyMap, <<>>, <<>>) EXCEPT
                  ![<<>>][<<>>] = setField(@, <<"p">>, arg)]
    /\ cur = <<<<>>, <<>>>>
    /\ line_num = 1
    /\ status = "num"
    /\ errLine = 0
    /\ input = <<>>
    /\ base = 0
    /\ ub = FALSE

CallParse ==
    /\ call = "none"
    /\ call' = "parse"
    /\ ret' = Parser_parse(arg)
    /\ UNCHANGED <<table, cur, line_num, status, errLine, input, base, ub, arg>>

CallGetFieldAs ==
    \E key \in {<<"p">>, <<"q">>} :
        /\ call = "none"
        /\ call' = "getFieldAs"
        /\ ret' = [key |-> key, res |-> getFieldAs(table[<<>>][<<>>], key)]
        /\ UNCHANGED <<table, cur, line_num, status, errLine, input, base, ub, arg>>

NextNum == CallParse \/ CallGetFieldAs

SpecNum == InitNum /\ [][NextNum]_vars

-----------------------------------------------------------------------------
(* What the claims refer to, stated on the text alone *)

Min(S) == CHOOSE p \in S : \A q \in S : p <= q

Max(S) == CHOOSE p \in S : \A q \in S : p >= q

\* The character at position p is escaped: a backslash that is not itself
\* escaped stands immediately before it.
RECURSIVE EscapedAt(_, _)
EscapedAt(sv, p) == p > 0 /\ sv[p] = BSL /\ ~EscapedAt(sv, p - 1)

\* Position p lies inside a quoted run: an odd number of unescaped '"' precede it.
RECURSIVE QuotedAt(_, _)
QuotedAt(sv, p) ==
    IF p = 0 THEN FALSE
    ELSE IF sv[p] = DQ /\ ~EscapedAt(sv, p - 1) THEN ~QuotedAt(sv, p - 1)
    ELSE QuotedAt(sv, p - 1)

\* The first ch that is neither inside a quoted run nor escaped
FirstFree(sv, ch) ==
    LET hits == {p \in 0..(Len(sv) - 1) :
                    sv[p + 1] = ch /\ ~EscapedAt(sv, p) /\ ~QuotedAt(sv, p)}
    IN  IF hits = {} THEN npos ELSE Min(hits)

\* The positions that hold an unescaped '#' or the start of "//"
CommentStarts(sv) ==
    {p \in 0..(Len(sv) - 1) :
        \/ sv[p + 1] = "#" /\ ~EscapedAt(sv, p)
        \/ sv[p + 1] = "/" /\ p + 1 < Len(sv) /\ sv[p + 2] = "/"}

\* Empty, spaces/tabs only, or a comment after optional spaces/tabs
BlankLine(l) ==
    LET fnos == find_first_not_of(l, {SP, TAB})
    IN  fnos = npos \/ fnos \in CommentStarts(l)

\* An optional '-' and one or more digits, nothing else
IsNumeral(sv) ==
    LET start == IF Len(sv) > 0 /\ sv[1] = "-" THEN 1 ELSE 0
    IN  Len(sv) > start /\ \A i \in (start + 1)..Len(sv) : sv[i] \in Digits

\* A numeral followed by one or more characters, the first of them no digit
GarbageTail(sv) ==
    \E n \in 1..(Len(sv) - 1) : IsNumeral(prefix(sv, n)) /\ sv[n + 1] \notin Digits

\* sv without one enclosing pair of double quotes
StripPair(sv) ==
    IF Len(sv) >= 2 /\ sv[1] = DQ /\ sv[Len(sv)] = DQ
    THEN SubSeq(sv, 2, Len(sv) - 1) ELSE sv

LastLine == input[Len(input)]

\* The last line read, after end-trimming and comment stripping
LastPrepared == trimStringComment(trimStringViewEnds(LastLine))

\* What each line read so far asks for
Outcomes == [i \in 1..Len(input) |-> parseLine(input[i], base + i)]

\* The <<section, subsection>> named by the most recent header before line i
SectionAt(i) ==
    LET heads == {j \in 1..(i - 1) : Outcomes[j].kind = "section"}
    IN  IF heads = {} THEN <<<<>>, <<>>>>
        ELSE <<Outcomes[Max(heads)].first, Outcomes[Max(heads)].second>>

\* The key/value lines with key k under the header <<s, sub>>
Writes(s, sub, k) ==
    {i \in 1..Len(input) :
        Outcomes[i].kind = "field" /\ Outcomes[i].first = k /\ SectionAt(i) = <<s, sub>>}

\* Names that occur in the input or in the table t
SeenSections(t) ==
    {<<<<>>, <<>>>>} \cup {SectionAt(i) : i \in 1..(Len(input) + 1)}
        \cup {<<s, sub>> : s \in DOMAIN t, sub \in UNION {DOMAIN t[x] : x \in DOMAIN t}}

SeenKeys(t) ==
    {Outcomes[i].first : i \in {j \in 1..Len(input) : Outcomes[j].kind = "field"}}
        \cup UNION {UNION {DOMAIN t[s][sub] : sub \in DOMAIN t[s]} : s \in DOMAIN t}

\* table[s][sub][k] through the const accessors
Stored(t, s, sub, k) ==
    Section_index(SectionGroup_index(ConfigTable_index(t, s).val, sub).val, k)

-----------------------------------------------------------------------------
(* The claims *)

\* C1: an empty line, a line of spaces/tabs only and a comment-only line are
\* skipped: reading one raises no error and leaves the table and the
\* current-section cursor as they were.
C1_BlankLinesAreSkipped ==
    [][(Len(input') = Len(input) + 1 /\ BlankLine(input'[Len(input')]))
          => (status' = status /\ table' = table /\ cur' = cur)]_vars

\* C2: in the returned table, each (section, subsection, key) holds the value
\* of the last key/value line with that key under that header (lines before any
\* header belong to ("", "")), and is absent when there is no such line.
C2_LastWriteWins ==
    (status = "done" /\ ~ub) =>
        \A ss \in SeenSections(ret), k \in SeenKeys(ret) :
            LET w == Writes(ss[1], ss[2], k)
            IN  Stored(ret, ss[1], ss[2], k)
                    = (IF w = {} THEN nullopt ELSE Some(Outcomes[Max(w)].second))

\* C2 witness: a table was returned for an input in which a later line
\* overwrote a key of the same section, after a header changed the section.
C2_Witness ==
    /\ status = "done"
    /\ ~ub
    /\ \E i \in 1..Len(input), j \in 1..Len(input) :
          /\ i < j
          /\ Outcomes[i].kind = "field"
          /\ Outcomes[j].kind = "field"
          /\ Outcomes[i].first = Outcomes[j].first
          /\ Outcomes[i].second # Outcomes[j].second
          /\ SectionAt(i) = SectionAt(j)
          /\ SectionAt(i) # <<<<>>, <<>>>>

\* C3: a read-only lookup never throws, changes nothing in the table, and
\* through a missing section, subsection or key yields the empty entity: every
\* field of it is absent.
C3_LookupsTotalAndPure ==
    [][call' \in LookupNames =>
          /\ table' = table
          /\ ~ret'.threw
          /\ (call' = "hasSection" /\ arg'[1] \notin DOMAIN table)
                => ret'.val = FALSE
          /\ (call' = "table[s]" /\ arg'[1] \notin DOMAIN table)
                => \A sub \in Names, k \in FieldKeys :
                      Section_index(SectionGroup_index(ret'.val, sub).val, k) = nullopt
          /\ (call' = "hasSubsection" /\ Len(arg') = 2
                /\ (arg'[1] \notin DOMAIN table \/ arg'[2] \notin DOMAIN table[arg'[1]]))
                => ret'.val = FALSE
          /\ (call' = "table[s][sub]"
                /\ (arg'[1] \notin DOMAIN table \/ arg'[2] \notin DOMAIN table[arg'[1]]))
                => \A k \in FieldKeys : Section_index(ret'.val, k) = nullopt
          /\ (call' \in {"hasField", "getField", "table[s][sub][k]"}
                /\ (\/ arg'[1] \notin DOMAIN table
                    \/ arg'[2] \notin DOMAIN table[arg'[1]]
                    \/ arg'[3] \notin DOMAIN table[arg'[1]][arg'[2]]))
                => ret'.val = (IF call' = "hasField" THEN FALSE ELSE nullopt)
      ]_vars

\* C3 witness: a three-level lookup through a missing section of a table that
\* holds a field elsewhere came back absent.
C3_Witness ==
    /\ call = "table[s][sub][k]"
    /\ arg[1] \notin DOMAIN table
    /\ ret = [threw |-> FALSE, val |-> nullopt]
    /\ \E s \in DOMAIN table : \E sub \in DOMAIN table[s] : table[s][sub] # EmptyMap

\* C4: parse<T>, and so getFieldAs<T>, fails on a numeral followed by
\* non-numeric characters.
C4_TrailingGarbageRejected ==
    /\ (call = "parse" /\ GarbageTail(arg)) => ret.threw # "none"
    /\ (call = "getFieldAs" /\ ret.key = <<"p">> /\ GarbageTail(arg))
          => ret.res.threw # "none"

\* C5: a line that is non-empty after end-trimming and comment stripping, does
\* not start with '[' and has no '=' outside quotes and unescaped makes the
\* parse fail with the malformed-line error carrying the line's 1-based number;
\* no table is returned.
C5_MalformedLineFails ==
    (/\ Len(input) > 0
     /\ Len(LastPrepared) > 0
     /\ LastPrepared[1] # "["
     /\ FirstFree(LastPrepared, "=") = npos)
        => (status = "malformed" /\ errLine = base + Len(input))

\* C6: an error that names a line names the 1-based index of the offending
\* line, whatever that index is.
C6_ErrorLineVerbatim ==
    status \in {"malformed", "unfinished"} => errLine = base + Len(input)

\* C7: after a header whose bracketed text has no unquoted, unescaped space,
\* the cursor is at the section named by that text trimmed and without one
\* enclosing pair of double quotes, subsection "".
C7_SingletonNameUnquoted ==
    (/\ Len(input) > 0
     /\ Len(LastPrepared) > 0
     /\ LastPrepared[1] = "["
     /\ ~trimStringQuotes(LastPrepared, 1, "[", "]").threw
     /\ FirstFree(trimStringQuotes(LastPrepared, 1, "[", "]").sv, SP) = npos)
        => LET text == trimStringQuotes(LastPrepared, 1, "[", "]").sv
               name == StripPair(trimStringViewEnds(text))
           IN  /\ status \in {"parsing", "done"}
               /\ cur = <<name, <<>>>>
               /\ hasSection(table, name)

\* C8: trimStringComment cuts the line at the first position that holds an
\* unescaped '#' or starts "//", and leaves it unchanged only when there is no
\* such position.
C8_CommentCutAtFirstMarker ==
    call = "trimStringComment" =>
        ret = (IF CommentStarts(arg) = {} THEN arg
               ELSE prefix(arg, Min(CommentStarts(arg))))

\* C9: findFirstNotQuoted returns the first ch that is neither inside a quoted
\* run nor escaped, a backslash escaping only the character right after it, or
\* the not-found sentinel.
C9_FirstUnquotedUnescaped ==
    call = "findFirstNotQuoted" => ret[2] = FirstFree(arg, ret[1])

\* C10: parseConfigFile never has trimStringQuotes read the first character of
\* an empty span.
C10_NoFrontOnEmptySpan == ~ub

=============================================================================
